---- MODULE Spec2Model ----
(***************************************************************************)
(* State-machine model of DiscogsMonitor (src/app.py): construction and   *)
(* its configuration check, the poll / dedupe / notify loop, its           *)
(* interruptible sleep, the 60 second cooldown and the SIGINT/SIGTERM      *)
(* handler.                                                                *)
(*                                                                         *)
(* Every blocking call (requests.get, requests.post, time.sleep) is a      *)
(* point where the signal handler may run, so each one is a position of    *)
(* the loop (pc) of its own.  One unit of time is one second.              *)
(***************************************************************************)
EXTENDS Integers, Sequences, FiniteSets, TLC

\* ---- bounds of the model ------------------------------------------------
MaxId == 2          \* listing identifiers are 1..MaxId
MaxLen == 2         \* longest listing array of one response
Interval == 3       \* the `interval` argument of run(), in seconds (default 300)
LateCap == 2        \* saturation of the seconds-since-shutdown counter

\* ---- program constants --------------------------------------------------
Cooldown == 60      \* time.sleep(60) after an unexpected error

Ids == 1..MaxId
NoId == 0           \* a listing dict without the key 'id'

\* A listing of the API response, reduced to the keys process_listings reads.
\*   price     : "absent" (no key), "str" (bare string), "dict" ({value, currency})
\*   condition : TRUE iff the key 'condition' is present
\*   location  : TRUE iff the key 'ships_from' is present
\* The responses enumerated hold, for every identifier, a listing with the
\* identifier alone, one with a bare-string price and no other key, and one
\* with every key.  A listing without 'id' raises before any other key is
\* read, so one representative of it is enough.
Listings ==
    {[id |-> i, price |-> "absent", condition |-> FALSE, location |-> FALSE] : i \in Ids}
    \cup {[id |-> i, price |-> "str", condition |-> FALSE, location |-> FALSE] : i \in Ids}
    \cup {[id |-> i, price |-> "dict", condition |-> TRUE, location |-> TRUE] : i \in Ids}
    \cup {[id |-> NoId, price |-> "absent", condition |-> FALSE, location |-> FALSE]}

RECURSIVE SeqsUpTo(_, _)
SeqsUpTo(S, n) ==
    IF n = 0 THEN {<<>>}
    ELSE LET shorter == SeqsUpTo(S, n - 1)
         IN  shorter \cup {Append(s, x) : s \in {t \in shorter : Len(t) = n - 1}, x \in S}

Responses == SeqsUpTo(Listings, MaxLen)

IdsOf(L) == {L[k].id : k \in 1..Len(L)} \ {NoId}

None == [priority |-> -1]

\* ---- configuration ---------------------------------------------------------
\* required_vars of _validate_config, in the declared order
RequiredVars == <<"DISCOGS_API_KEY", "PUSHOVER_TOKEN", "PUSHOVER_USER">>

VarNames == {RequiredVars[k] : k \in 1..Len(RequiredVars)}

\* What os.getenv finds for a variable: nothing, the empty string, a token.
Environments == [VarNames -> {"absent", "empty", "set"}]

\* `not os.getenv(var)`: None and '' are both falsy
Falsy(v) == v \in {"absent", "empty"}

\* `os.getenv(var) is None` in place of `not os.getenv(var)`
IsMissing_mut(e, var) == e[var] = "absent"
IsMissing(e, var) == Falsy(e[var])

\* missing = [var for var in required_vars if not os.getenv(var)]
Missing(e) == SelectSeq(RequiredVars, LAMBDA var : IsMissing(e, var))

Unread == [var \in VarNames |-> "unread"]

\* no JSON body in hand
NoData == "none" :> <<>>

VARIABLES
    pc,             \* position of run(): see the actions
    running,        \* self.running
    seen_listings,  \* self.seen_listings
    listings,       \* what is left of the `for listing in listings` iteration
    post,           \* payload of the requests.post in flight, or None
    slept,          \* iterations of `for _ in range(interval)` completed
    cool,           \* seconds of time.sleep(60) elapsed
    fetch_outcome,  \* how the check_listings of this cycle went
    notified,       \* history: send_notification(priority=1) calls per identifier
    sent0,          \* history: send_notification(priority=0) calls
    failed,         \* history: identifiers whose delivery failed
    returned,       \* history: identifiers contained in the responses so far
    malformed,      \* history: some response held a listing without 'id'
    sigAt,          \* history: phase of the loop when running was cleared
    late,           \* history: whole seconds slept since running was cleared
    env,            \* the environment of the process
    credentials,    \* self.discogs_api_key, self.pushover_token, self.pushover_user
    error,          \* the names in the ValueError of _validate_config
    data,           \* a JSON body handed to the key selection alone, or NoData
    gets,           \* history: requests.get calls completed in this cycle
    startup,        \* history: delivery of the startup notification
    behind          \* history: unseen identifiers an abort cut off

vars == <<pc, running, seen_listings, listings, post, slept, cool,
          fetch_outcome, notified, sent0, failed, returned, malformed,
          sigAt, late, env, credentials, error, data, gets, startup,
                   behind>>

Init ==
    /\ pc = "init"
    /\ running = TRUE
    /\ seen_listings = {}
    /\ listings = <<>>
    /\ post = None
    /\ slept = 0
    /\ cool = 0
    /\ fetch_outcome = "none"
    /\ notified = [i \in Ids |-> 0]
    /\ sent0 = 0
    /\ failed = {}
    /\ returned = {}
    /\ malformed = FALSE
    /\ sigAt = "none"
    /\ late = 0
    /\ env \in Environments
    /\ credentials = Unread
    /\ error = <<>>
    /\ data = NoData
    /\ gets = 0
    /\ startup = "unsent"
    /\ behind = {}

\* ---- pure parts of process_listings --------------------------------------
IsNew_mut(l) == TRUE
\* a listing whose delivery failed counted as new again
IsNew_retry(l) == l.id \notin seen_listings \/ l.id \in failed
\* a listing whose processing was aborted taken up again
IsNew_abort(l) == l.id \notin seen_listings \/ l.price = "absent"
IsNew(l) == l.id \notin seen_listings

MarkSeen_mut(l) == {l.id}
MarkSeen(l) == seen_listings \cup {l.id}

\* listing['id'] and listing['price'] are subscripts: KeyError when absent
IdRaises(l) == l.id = NoId
PriceRaises(l) == l.price = "absent"

NormalizePrice(l) ==
    IF l.price = "dict"
    THEN [value |-> "v", currency |-> "c"]
    ELSE [value |-> IF l.price = "absent" THEN "0" ELSE "v", currency |-> "USD"]

Condition(l) == IF l.condition THEN "cond" ELSE "Not specified"
Location(l) == IF l.location THEN "place" ELSE "Unknown"

Payload(l) ==
    [priority |-> 1,
     value |-> NormalizePrice(l).value,
     currency |-> NormalizePrice(l).currency,
     condition |-> Condition(l),
     location |-> Location(l)]

StartupPayload == [priority |-> 0]

\* ---- where control goes ---------------------------------------------------
LoopCond_mut == TRUE
LoopCond == running

SleepBreak_mut == FALSE
SleepBreak == ~running

OnRequestException_mut == "cooldown"
OnRequestException == "sleep_check"

OnUnexpected_mut == "stopped"
OnUnexpected == "cooldown"

\* send_notification's except clause returns to the caller (ret)
AfterPostError_mut(ret) == "cooldown"
AfterPostError(ret) == ret

\* _handle_signal: self.running = False
SignalWrite_mut == ~running
SignalWrite == FALSE

Tick == IF running THEN late ELSE IF late < LateCap THEN late + 1 ELSE LateCap

Phase ==
    CASE pc = "start" -> "start"
      [] pc = "post" /\ post.priority = 0 -> "start"
      [] pc = "loop" -> "loop"
      [] pc \in {"sleep_check", "sleeping"} -> "sleep"
      [] pc = "cooldown" -> "cooldown"
      [] OTHER -> "poll"

\* ---- check_listings: the response body -----------------------------------
\* The JSON body is a mapping; the listing array is under 'listings', under
\* 'results', or the body has neither key.
Bodies ==
    {k :> L : k \in {"listings", "results"}, L \in Responses}
    \cup {"message" :> <<>>}

HasListings(body) == "listings" \in DOMAIN body \/ "results" \in DOMAIN body

\* the 'results' branch forgotten
Extract_mut(body) ==
    IF "listings" \in DOMAIN body THEN body["listings"] ELSE <<>>

Extract(body) ==
    IF "listings" \in DOMAIN body THEN body["listings"]
    ELSE IF "results" \in DOMAIN body THEN body["results"]
    ELSE <<>>

\* the else branch logs "No listings found" and check_listings returns
OnNoListings_mut == "cooldown"
OnNoListings == "sleep_check"

\* ---- actions ---------------------------------------------------------------
\* DiscogsMonitor(): read the environment, validate, set the fields up
Construct ==
    /\ pc = "init"
    /\ credentials' = env
    /\ IF Missing(env) # <<>>
       THEN /\ error' = Missing(env)
            /\ pc' = "failed"
       ELSE /\ pc' = "start"
            /\ UNCHANGED error
    /\ UNCHANGED <<running, seen_listings, listings, post, slept, cool,
                   fetch_outcome, notified, sent0, failed, returned,
                   malformed, sigAt, late, env, data, gets, startup,
                   behind>>

\* run() entering the loop with the startup notification left out
RunStart_mut ==
    /\ pc = "start"
    /\ pc' = "loop"
    /\ UNCHANGED <<running, seen_listings, listings, post, slept, cool,
                   fetch_outcome, notified, sent0, failed, returned,
                   malformed, sigAt, late, env, credentials, error, data,
                   gets, startup,
                   behind>>

\* run(): the startup notification is handed to send_notification
RunStart ==
    /\ pc = "start"
    /\ post' = StartupPayload
    /\ sent0' = sent0 + 1
    /\ pc' = "post"
    /\ UNCHANGED <<running, seen_listings, listings, slept, cool,
                   fetch_outcome, notified, failed, returned,
                   malformed, sigAt, late, env, credentials, error, data,
                   gets, startup,
                   behind>>

\* send_notification: one requests.post; success and failure both return
SendNotification ==
    /\ pc = "post"
    /\ \E ok \in BOOLEAN :
         IF post.priority = 0
         THEN /\ startup' = IF ok THEN "ok" ELSE "failed"
              /\ pc' = IF ok THEN "loop" ELSE AfterPostError("loop")
              /\ UNCHANGED <<listings, failed>>
         ELSE /\ failed' = IF ok THEN failed ELSE failed \cup {Head(listings).id}
              /\ listings' = Tail(listings)
              /\ pc' = IF ok THEN "process" ELSE AfterPostError("process")
              /\ UNCHANGED startup
    /\ post' = None
    /\ UNCHANGED <<running, seen_listings, slept, cool, fetch_outcome,
                   notified, sent0, returned, malformed, sigAt, late,
                   env, credentials, error, data, gets, behind>>

\* while self.running:
LoopTest ==
    /\ pc = "loop"
    /\ IF LoopCond
       THEN pc' = "get_release" /\ fetch_outcome' = "none" /\ gets' = 0
       ELSE pc' = "stopped" /\ UNCHANGED <<fetch_outcome, gets>>
    /\ UNCHANGED <<running, seen_listings, listings, post, slept, cool,
                   notified, sent0, failed, returned, malformed,
                   sigAt, late, env, credentials, error, data, startup,
                   behind>>

\* check_listings: GET /releases/{id}, raise_for_status
GetRelease ==
    /\ pc = "get_release"
    /\ \E ok \in BOOLEAN :
         IF ok
         THEN pc' = "get_listings" /\ UNCHANGED fetch_outcome
         ELSE pc' = OnRequestException /\ fetch_outcome' = "error"
    /\ gets' = gets + 1
    /\ slept' = 0
    /\ cool' = 0
    /\ UNCHANGED <<running, seen_listings, listings, post, notified,
                   sent0, failed, returned, malformed, sigAt, late,
                   env, credentials, error, data, startup,
                   behind>>

\* check_listings: GET /marketplace/listings failed (transport or status)
GetListingsFail ==
    /\ pc = "get_listings"
    /\ pc' = OnRequestException
    /\ fetch_outcome' = "error"
    /\ gets' = gets + 1
    /\ slept' = 0
    /\ cool' = 0
    /\ UNCHANGED <<running, seen_listings, listings, post, notified,
                   sent0, failed, returned, malformed, sigAt, late,
                   env, credentials, error, data, startup,
                   behind>>

\* check_listings: GET /marketplace/listings answered; pick the listing array
GetListingsOk ==
    /\ pc = "get_listings"
    /\ \E body \in Bodies :
         /\ fetch_outcome' = IF HasListings(body) THEN "ok" ELSE "neither"
         /\ returned' = returned \cup IdsOf(Extract(body))
         /\ malformed' = (malformed \/ \E k \in 1..Len(Extract(body)) :
                                          IdRaises(Extract(body)[k]))
         /\ IF HasListings(body)
            THEN listings' = Extract(body) /\ pc' = "process"
            ELSE listings' = <<>> /\ pc' = OnNoListings
    /\ gets' = gets + 1
    /\ slept' = 0
    /\ cool' = 0
    /\ UNCHANGED <<running, seen_listings, post, notified, sent0,
                   failed, sigAt, late, env, credentials, error, data,
                   startup,
                   behind>>

\* process_listings: one iteration of the for loop, up to the requests.post
\* the identifiers, not in the seen-set S, of the listings the for loop has
\* not reached when the exception leaves it
LeftBehind(S) == IdsOf(Tail(listings)) \ S

ProcessListing ==
    /\ pc = "process"
    /\ listings # <<>>
    /\ LET l == Head(listings) IN
         IF IdRaises(l)
         THEN /\ pc' = OnUnexpected
              /\ listings' = <<>>
              /\ behind' = behind \cup LeftBehind(seen_listings)
              /\ UNCHANGED <<seen_listings, post, notified>>
         ELSE IF ~IsNew(l)
         THEN /\ listings' = Tail(listings)
              /\ UNCHANGED <<pc, seen_listings, post, notified, behind>>
         ELSE /\ seen_listings' = MarkSeen(l)
              /\ IF PriceRaises(l)
                 THEN /\ pc' = OnUnexpected
                      /\ listings' = <<>>
                      /\ behind' = (behind \cup LeftBehind(seen_listings'))
                                      \ {l.id}
                      /\ UNCHANGED <<post, notified>>
                 ELSE /\ post' = Payload(l)
                      /\ notified' = [notified EXCEPT ![l.id] = @ + 1]
                      /\ pc' = "post"
                      /\ behind' = behind \ {l.id}
                      /\ UNCHANGED listings
    /\ UNCHANGED <<running, slept, cool, fetch_outcome, sent0, failed,
                   returned, malformed, sigAt, late, env, credentials,
                   error, data, gets, startup>>

\* process_listings and check_listings return
ProcessDone ==
    /\ pc = "process"
    /\ listings = <<>>
    /\ pc' = "sleep_check"
    /\ UNCHANGED <<running, seen_listings, listings, post, slept, cool,
                   fetch_outcome, notified, sent0, failed, returned,
                   malformed, sigAt, late,
                   env, credentials, error, data, gets, startup,
                   behind>>

\* for _ in range(interval): if not self.running: break
SleepCheck ==
    /\ pc = "sleep_check"
    /\ IF slept < Interval /\ ~SleepBreak
       THEN pc' = "sleeping"
       ELSE pc' = "loop"
    /\ UNCHANGED <<running, seen_listings, listings, post, slept, cool,
                   fetch_outcome, notified, sent0, failed, returned,
                   malformed, sigAt, late,
                   env, credentials, error, data, gets, startup,
                   behind>>

\* time.sleep(1)
SleepUnit ==
    /\ pc = "sleeping"
    /\ slept' = slept + 1
    /\ late' = Tick
    /\ pc' = "sleep_check"
    /\ UNCHANGED <<running, seen_listings, listings, post, cool,
                   fetch_outcome, notified, sent0, failed, returned,
                   malformed, sigAt,
                   env, credentials, error, data, gets, startup,
                   behind>>

\* except Exception: time.sleep(60), one second of it
CooldownUnit ==
    /\ pc = "cooldown"
    /\ cool < Cooldown
    /\ cool' = cool + 1
    /\ late' = Tick
    /\ UNCHANGED <<pc, running, seen_listings, listings, post, slept,
                   fetch_outcome, notified, sent0, failed, returned,
                   malformed, sigAt,
                   env, credentials, error, data, gets, startup,
                   behind>>

\* time.sleep(60) returns
CooldownReturn ==
    /\ pc = "cooldown"
    /\ cool = Cooldown
    /\ pc' = "loop"
    /\ UNCHANGED <<running, seen_listings, listings, post, slept, cool,
                   fetch_outcome, notified, sent0, failed, returned,
                   malformed, sigAt, late,
                   env, credentials, error, data, gets, startup,
                   behind>>

\* _handle_signal, between any two steps once the handlers are installed
HandleSignal ==
    /\ pc \notin {"init", "failed", "stopped"}
    /\ running' = SignalWrite
    /\ sigAt' = IF running THEN Phase ELSE sigAt
    /\ UNCHANGED <<pc, seen_listings, listings, post, slept, cool,
                   fetch_outcome, notified, sent0, failed, returned,
                   malformed, late,
                   env, credentials, error, data, gets, startup,
                   behind>>

\* The steps of the loop that return from a blocking call or run between two
\* of them.  GetListingsOk is left out: at get_listings it is enabled exactly
\* when GetListingsFail is, and either one leaves get_listings, so that weak
\* fairness of Returns says that no call and no sleep lasts forever.
Returns ==
    \/ Construct
    \/ RunStart
    \/ SendNotification
    \/ LoopTest
    \/ GetRelease
    \/ GetListingsFail
    \/ ProcessListing
    \/ ProcessDone
    \/ SleepCheck
    \/ SleepUnit
    \/ CooldownUnit
    \/ CooldownReturn

Next ==
    \/ Construct
    \/ RunStart
    \/ SendNotification
    \/ LoopTest
    \/ GetRelease
    \/ GetListingsFail
    \/ GetListingsOk
    \/ ProcessListing
    \/ ProcessDone
    \/ SleepCheck
    \/ SleepUnit
    \/ CooldownUnit
    \/ CooldownReturn
    \/ HandleSignal

Spec == Init /\ [][Next]_vars

\* Network calls and sleeps return; nothing forces a signal to arrive.
FairSpec == Spec /\ WF_vars(Returns)

\* ---- the key selection of check_listings on its own -----------------------
\* check_listings, lines 103-109, applied to a body in hand: the same
\* selection GetListingsOk makes when the GET returns.
Dispatch ==
    /\ pc = "got_json"
    /\ IF HasListings(data)
       THEN /\ listings' = Extract(data)
            /\ fetch_outcome' = "ok"
            /\ pc' = "process"
       ELSE /\ listings' = <<>>
            /\ fetch_outcome' = "neither"
            /\ pc' = OnNoListings
    /\ data' = NoData
    /\ UNCHANGED <<running, seen_listings, post, slept, cool, notified,
                   sent0, failed, returned, malformed, sigAt, late, env,
                   credentials, error, gets, startup,
                   behind>>

\* the one array a body carries, whatever its key
ArrayOf(body) == body[CHOOSE k \in DOMAIN body : TRUE]

\* A monitor in the middle of a poll, with any seen-set, holding any body.
ShapeInit ==
    /\ pc = "got_json"
    /\ data \in Bodies
    /\ seen_listings \in SUBSET Ids
    /\ notified = [i \in Ids |-> IF i \in seen_listings THEN 1 ELSE 0]
    /\ returned = seen_listings \cup IdsOf(ArrayOf(data))
    /\ malformed = \E k \in 1..Len(ArrayOf(data)) : IdRaises(ArrayOf(data)[k])
    /\ running = TRUE
    /\ listings = <<>>
    /\ post = None
    /\ slept = 0
    /\ cool = 0
    /\ fetch_outcome = "none"
    /\ sent0 = 1
    /\ failed = {}
    /\ sigAt = "none"
    /\ late = 0
    /\ env = [var \in VarNames |-> "set"]
    /\ credentials = env
    /\ error = <<>>
    /\ gets = 2
    /\ startup = "ok"
    /\ behind = {}

ShapeNext ==
    \/ Dispatch
    \/ ProcessListing
    \/ SendNotification
    \/ ProcessDone

ShapeSpec == ShapeInit /\ [][ShapeNext]_vars

TypeOK ==
    /\ pc \in {"init", "failed", "start", "post", "loop", "get_release",
               "get_listings", "got_json", "process", "sleep_check",
               "sleeping", "cooldown", "stopped"}
    /\ running \in BOOLEAN
    /\ seen_listings \subseteq Ids
    /\ Len(listings) <= MaxLen
    /\ slept \in 0..Interval
    /\ cool \in 0..Cooldown
    /\ late \in 0..LateCap
    /\ gets \in 0..2
    /\ startup \in {"unsent", "ok", "failed"}
    /\ data \in Bodies \cup {NoData}
    /\ behind \subseteq Ids \ seen_listings

\* ---- the claims -----------------------------------------------------------
\* A step of the loop itself, not the signal handler clearing the flag.
LoopStep == running' = running

\* The listing the for loop is about to process.
AtListing == pc = "process" /\ listings # <<>>

\* C1: at most one listing notification is ever dispatched per identifier,
\* and processing a listing whose identifier is already in the seen-set
\* dispatches nothing and leaves the seen-set as it was.
C1_AtMostOnce ==
    /\ [](\A i \in Ids : notified[i] <= 1)
    /\ [][(AtListing /\ Head(listings).id \in seen_listings)
            => /\ notified' = notified
               /\ seen_listings' = seen_listings
               /\ post' = None]_vars

\* a listing whose identifier was notified before is up for processing again
C1_Witness ==
    /\ AtListing
    /\ Head(listings).id \in seen_listings
    /\ notified[Head(listings).id] = 1
    /\ Head(listings).price = "absent"

\* C2 (as stated): at the top of the loop, when every listing returned so far
\* carried an identifier, exactly the identifiers returned so far have been
\* notified, once each.
C2_AsStated ==
    (pc = "loop" /\ ~malformed)
        => /\ \A i \in returned : notified[i] = 1
           /\ \A i \in Ids \ returned : notified[i] = 0

\* the notification the documented defaults give for listing l
Documented(l) ==
    [priority |-> 1,
     value |-> IF l.price = "absent" THEN "0" ELSE "v",
     currency |-> IF l.price = "dict" THEN "c" ELSE "USD",
     condition |-> IF l.condition THEN "cond" ELSE "Not specified",
     location |-> IF l.location THEN "place" ELSE "Unknown"]

LacksField(l) == l.price = "absent" \/ ~l.condition \/ ~l.location

\* C3 (as stated): processing a new listing that has an identifier but lacks
\* price, condition or location does not raise and dispatches exactly one
\* notification built from the defaults.
C3_AsStated ==
    [][(AtListing /\ LoopStep /\ Head(listings).id \in Ids \ seen_listings
          /\ LacksField(Head(listings)))
         => /\ pc' = "post"
            /\ post' = Documented(Head(listings))
            /\ notified' = [notified EXCEPT ![Head(listings).id] = @ + 1]]_vars

\* C4 (as stated): between the processing of two listings, an identifier is
\* in the seen-set iff a notification was dispatched for it.
C4_AsStated ==
    pc # "post" => \A i \in Ids : (i \in seen_listings <=> notified[i] >= 1)

\* C5: no step removes an identifier from the seen-set, and only a step of
\* process_listings adds one.
C5_SeenOnlyGrows ==
    [][/\ seen_listings \subseteq seen_listings'
       /\ seen_listings' # seen_listings => AtListing]_vars

\* the seen-set has survived a failed delivery, an unexpected error, part of
\* the cooldown and a shutdown signal
C5_Witness ==
    /\ seen_listings = Ids
    /\ failed # {}
    /\ pc = "cooldown"
    /\ cool > 0
    /\ ~running

\* the listing at the head of the iteration makes process_listings raise
HeadRaises ==
    \/ IdRaises(Head(listings))
    \/ Head(listings).id \notin seen_listings /\ PriceRaises(Head(listings))

\* C6: an exception escaping the poll sends the loop to the cooldown, the
\* cooldown lasts its full 60 seconds and is followed by the loop test, the
\* loop test starts the next poll when the flag is set, and the loop is
\* STOPPED only with the flag cleared.
C6_ErrorKeepsLoopAlive ==
    /\ [](pc = "stopped" => ~running)
    /\ [][/\ (AtListing /\ LoopStep /\ HeadRaises)
               => (pc' = "cooldown" /\ cool' = 0)
          /\ pc = "cooldown"
               => (pc' = "cooldown" \/ (pc' = "loop" /\ cool = Cooldown))
          /\ (pc = "loop" /\ running /\ LoopStep)
               => pc' = "get_release"]_vars

\* the next poll has started after a complete cooldown
C6_Witness ==
    /\ pc = "get_release"
    /\ cool = Cooldown
    /\ running

\* C7: a failed GET is caught in check_listings: nothing is notified, the
\* seen-set is unchanged and the loop enters the normal sleep, never the
\* cooldown.
C7_FetchFailureRecovered ==
    /\ [](fetch_outcome = "error"
            => pc \in {"sleep_check", "sleeping", "loop", "stopped"})
    /\ [][(pc \in {"get_release", "get_listings"} /\ fetch_outcome' = "error")
            => /\ pc' = "sleep_check"
               /\ slept' = 0
               /\ seen_listings' = seen_listings
               /\ notified' = notified
               /\ post' = None]_vars

\* a cycle whose fetch failed is in its normal sleep, earlier cycles having
\* notified listings
C7_Witness ==
    /\ fetch_outcome = "error"
    /\ pc = "sleeping"
    /\ seen_listings # {}

\* C8: once the flag is cleared during the normal sleep, at most one more
\* second is slept, no poll is started, and the loop reaches STOPPED.
C8_SleepHonoursShutdown ==
    /\ [](sigAt = "sleep"
            => /\ late <= 1
               /\ pc \in {"sleep_check", "sleeping", "loop", "stopped"})
    /\ (sigAt = "sleep" ~> pc = "stopped")

\* stopped one second after a signal that arrived with most of the interval
\* still to sleep
C8_Witness ==
    /\ sigAt = "sleep"
    /\ pc = "stopped"
    /\ late = 1
    /\ slept = 1

\* C9 (as stated): whichever sleep the flag is cleared in, the normal
\* interval or the cooldown, at most one more second is slept.
C9_AsStated ==
    sigAt \in {"sleep", "cooldown"} => late <= 1

\* C10: once the flag is cleared the loop reaches STOPPED, and nothing
\* happens after STOPPED.
C10_ShutdownTerminates ==
    /\ (~running ~> pc = "stopped")
    /\ [][pc # "stopped"]_vars

\* stopped after a signal that arrived while a poll was in progress
C10_Witness ==
    /\ pc = "stopped"
    /\ sigAt = "poll"
    /\ seen_listings # {}

\* C11: the flag is set until the handler has run, the only change it ever
\* undergoes is from set to cleared, and the step that clears it is the
\* handler's: it moves the loop nowhere and leaves the seen-set, the
\* credentials and everything the loop works on as they were.
C11_FlagOneWay ==
    /\ [](sigAt = "none" => running)
    /\ [][running' # running
            => /\ running /\ ~running'
               /\ pc \notin {"init", "failed", "stopped"}
               /\ UNCHANGED <<pc, seen_listings, credentials, env, listings,
                              post, slept, cool, notified, sent0>>]_vars
    /\ [][~running => ~running']_vars

\* the flag was cleared and the loop is still at work on intact state
C11_Witness ==
    /\ ~running
    /\ pc = "process"
    /\ listings # <<>>
    /\ seen_listings # {}
    /\ credentials = env

\* C12: a failed delivery is one POST and no more: the call returns to its
\* caller with nothing in flight, process_listings goes on with the next
\* listing of the response, run with the loop test, and neither the seen-set
\* nor the sleep and cooldown counters are touched.
C12_DeliveryFailureRecovered ==
    /\ [](pc = "post" <=> post # None)
    /\ [][/\ failed' # failed
               => /\ pc = "post" /\ pc' = "process"
                  /\ listings' = Tail(listings)
                  /\ post' = None
                  /\ UNCHANGED <<seen_listings, notified, sent0, slept, cool>>
          /\ (startup' = "failed" /\ startup # "failed")
               => /\ pc = "post" /\ pc' = "loop"
                  /\ post' = None
                  /\ UNCHANGED <<seen_listings, notified, sent0, slept, cool>>]_vars

\* a delivery failed, a later listing was notified all the same, and the
\* cycle ended in the normal sleep
C12_Witness ==
    /\ failed # {}
    /\ \E i \in Ids \ failed : notified[i] = 1
    /\ pc = "sleeping"
    /\ fetch_outcome = "ok"

\* C13: the step that picks the listing array out of a body hands
\* process_listings the array the body carries and keeps nothing of the key:
\* a body with L under 'listings' and one with L under 'results' lead from
\* the same seen-set to the same state, hence to the same notifications and
\* the same seen-set afterwards.
C13_ShapeEquivalence ==
    [][(pc = "got_json" /\ HasListings(data))
         => /\ listings' = ArrayOf(data)
            /\ pc' = "process"
            /\ fetch_outcome' = "ok"
            /\ data' = NoData
            /\ UNCHANGED <<seen_listings, notified, failed, post, returned,
                           malformed, running, slept, cool, sent0, sigAt,
                           late, env, credentials, error, gets,
                           startup>>]_vars

\* the array of a body was processed to its end, with a notification sent
C13_Witness ==
    /\ pc = "sleep_check"
    /\ fetch_outcome = "ok"
    /\ data = NoData
    /\ failed # {}
    /\ seen_listings = Ids

\* C14: a body with neither key ends the cycle in the normal sleep with
\* nothing notified, nothing in flight and the seen-set unchanged.
C14_NeitherKeyIsNoError ==
    /\ [](fetch_outcome = "neither"
            => pc \in {"sleep_check", "sleeping", "loop", "stopped"})
    /\ [][(fetch_outcome' = "neither" /\ fetch_outcome # "neither")
            => /\ pc = "get_listings" /\ pc' = "sleep_check"
               /\ slept' = 0
               /\ listings' = <<>>
               /\ UNCHANGED <<seen_listings, notified, failed, post>>]_vars

\* a cycle whose body had neither key is in its normal sleep, earlier cycles
\* having notified listings
C14_Witness ==
    /\ fetch_outcome = "neither"
    /\ pc = "sleeping"
    /\ seen_listings # {}

\* position of a name in the declared order
Rank(var) == CHOOSE k \in 1..Len(RequiredVars) : RequiredVars[k] = var

\* the names of S, once each, in the declared order
NamesInOrder(e, S) ==
    /\ {e[k] : k \in 1..Len(e)} = S
    /\ \A j, k \in 1..Len(e) : j < k => Rank(e[j]) < Rank(e[k])

Absent == {var \in VarNames : env[var] = "absent"}
AbsentOrEmpty == {var \in VarNames : env[var] # "set"}

\* C15 (as stated): construction fails iff some required variable is absent,
\* the error names exactly the absent ones in the declared order, and after a
\* failure nothing is sent and no poll starts.
C15_AsStated ==
    pc # "init"
        => /\ pc = "failed" <=> Absent # {}
           /\ pc = "failed" => NamesInOrder(error, Absent)
           /\ pc = "failed" => sent0 = 0 /\ gets = 0

\* C15 (amended): the same with "absent or set to the empty string" for
\* "absent"; a failed construction is the end of the process.
C15_ConfigFailFast ==
    /\ [](pc # "init"
            => /\ pc = "failed" <=> AbsentOrEmpty # {}
               /\ pc = "failed" => NamesInOrder(error, AbsentOrEmpty)
               /\ pc = "failed" => /\ sent0 = 0 /\ gets = 0
                                   /\ fetch_outcome = "none"
                                   /\ post = None
                                   /\ seen_listings = {})
    /\ [][pc # "failed"]_vars

\* construction failed on two names, one of them set to the empty string
C15_Witness ==
    /\ pc = "failed"
    /\ Len(error) = 2
    /\ \E var \in VarNames : env[var] = "empty"
    /\ \E var \in VarNames : env[var] = "absent"

\* the fetch phase of the cycle is over
Fetched == pc \in {"process", "post", "sleep_check", "sleeping", "cooldown"}

\* the listing query, the second GET of check_listings, has been sent
ListingQuerySent == gets = 2

\* C16 (as stated): a cycle makes exactly one GET, and the request whose
\* failure left a cycle without listings is the listing query.
C16_AsStated ==
    /\ Fetched => gets = 1
    /\ fetch_outcome = "error" => ListingQuerySent

\* the loop proper: every position of run() after the startup notification
InLoop ==
    pc \in {"loop", "get_release", "get_listings", "process", "sleep_check",
            "sleeping", "cooldown", "stopped"}
    \/ (pc = "post" /\ post.priority = 1)

\* C17: once run() is past its first statement exactly one priority-0
\* notification has been sent; its POST is over, delivered or not, before the
\* loop is entered and so before the first GET; every POST after it is a
\* priority-1 listing notification; a failed delivery leads to the loop test
\* all the same.
C17_StartupOrdering ==
    /\ [](sent0 <= 1)
    /\ [](pc \notin {"init", "failed", "start"} => sent0 = 1)
    /\ [](InLoop => startup \in {"ok", "failed"})
    /\ [](startup = "unsent"
            => /\ gets = 0 /\ fetch_outcome = "none"
               /\ \A i \in Ids : notified[i] = 0)
    /\ [](pc = "post" => (post.priority = 0 <=> startup = "unsent"))
    /\ [][(startup = "unsent" /\ startup' = "failed") => pc' = "loop"]_vars

\* a listing notification is in flight in a run whose startup notification
\* was not delivered
C17_Witness ==
    /\ startup = "failed"
    /\ pc = "post"
    /\ post.priority = 1
    /\ sent0 = 1

\* C18 (as stated): when the flag was cleared during a poll and every listing
\* returned carried an identifier, then once the poll is over every listing
\* returned is in the seen-set and notified, and the loop neither sleeps nor
\* cools down on its way to STOPPED.
C18_AsStated ==
    (sigAt = "poll" /\ ~malformed
       /\ pc \in {"sleep_check", "sleeping", "cooldown", "loop", "stopped"})
        => /\ \A i \in returned : i \in seen_listings /\ notified[i] = 1
           /\ pc \notin {"sleeping", "cooldown"}
           /\ late = 0

\* C19: an identifier is in the seen-set by the time its POST is made, a
\* failed delivery leaves it there, and an identifier whose delivery failed
\* has been notified once and is never notified again.
C19_SeenBeforeDelivery ==
    /\ []((pc = "post" /\ post.priority = 1)
            => Head(listings).id \in seen_listings)
    /\ [](failed \subseteq seen_listings)
    /\ [](\A i \in failed : notified[i] = 1)
    /\ [][\A i \in failed : notified'[i] = notified[i]]_vars

\* a listing whose delivery failed in an earlier cycle is returned again,
\* well formed, and is up for processing
C19_Witness ==
    /\ AtListing
    /\ Head(listings).id \in failed
    /\ Head(listings).price # "absent"

\* the step on which process_listings is left by an exception
Aborts == AtListing /\ HeadRaises /\ LoopStep

\* a listing of i with its price is among those still to be processed
Pending(i) ==
    /\ pc = "process"
    /\ \E k \in 1..Len(listings) :
          listings[k].id = i /\ listings[k].price # "absent"

\* the same, with an identifier on every listing ahead of it
PendingInReach(i) ==
    /\ pc = "process"
    /\ \E k \in 1..Len(listings) :
          /\ listings[k].id = i /\ listings[k].price # "absent"
          /\ \A j \in 1..(k - 1) : listings[j].id # NoId

====
